---- MODULE Spec2Model ----
(***************************************************************************)
(* Model of script_robot.py: the keyboard tank-drive mixer                 *)
(* (get_keyboard_inputs_from_pygame) and the connect / stream / teardown / *)
(* retry loop of run_network_client.                                       *)
(*                                                                         *)
(* Floating point.  current_speed is an IEEE-754 double.  Every double the *)
(* program can hold is a non-negative multiple of 2^-56 below 256, so a    *)
(* double is modelled exactly as five base-2^14 limbs, least significant   *)
(* first: value = (l[1] + l[2]*B + ... + l[5]*B^4) * 2^-56.  l[5] is the   *)
(* integer part.  Sums, differences and products are computed exactly and  *)
(* then rounded to 53 significant bits, ties to even, as the hardware does.*)
(***************************************************************************)
EXTENDS Integers, Sequences, FiniteSets, TLC

\* ------------------------------------------------------------------ bounds
MaxQueue == 2      \* pending pygame events the model lets accumulate
MaxAttempts == 4   \* saturation of the counters kept until the first connection

\* --------------------------------------------------------- double arithmetic
LimbBase == 16384
NLimbs == 5

\* Propagate carries (or borrows: \div floors, % is non-negative).
Norm(l) ==
  LET n1 == l[1]
      n2 == l[2] + (n1 \div LimbBase)
      n3 == l[3] + (n2 \div LimbBase)
      n4 == l[4] + (n3 \div LimbBase)
      n5 == l[5] + (n4 \div LimbBase)
  IN  << n1 % LimbBase, n2 % LimbBase, n3 % LimbBase, n4 % LimbBase, n5 >>

AddL(a, b) == Norm([i \in 1..NLimbs |-> a[i] + b[i]])

\* a - b for a >= b
SubL(a, b) == Norm([i \in 1..NLimbs |-> a[i] - b[i]])

RECURSIVE LessFrom(_, _, _)
LessFrom(a, b, i) ==
  IF i = 0 THEN FALSE
  ELSE IF a[i] # b[i] THEN a[i] < b[i]
  ELSE LessFrom(a, b, i - 1)

\* a < b
LessL(a, b) == LessFrom(a, b, NLimbs)

RECURSIVE BitLen(_)
BitLen(n) == IF n = 0 THEN 0 ELSE 1 + BitLen(n \div 2)

RECURSIVE TopLimb(_, _)
TopLimb(l, i) == IF i = 0 THEN 0 ELSE IF l[i] # 0 THEN i ELSE TopLimb(l, i - 1)

\* number of significant bits of the exact value
Bits(l) ==
  LET t == TopLimb(l, NLimbs)
  IN  IF t = 0 THEN 0 ELSE 14 * (t - 1) + BitLen(l[t])

\* Round an exact value to the nearest double (53-bit significand, ties to
\* even).  The values that occur have at most 64 bits, so the discarded part
\* lies wholly in the lowest limb.
RoundDouble(l) ==
  LET sh   == Bits(l) - 53
      ulp  == 2 ^ sh
      r    == l[1] % ulp
      half == ulp \div 2
      odd  == (l[1] \div ulp) % 2 = 1
      up   == r > half \/ (r = half /\ odd)
  IN  IF sh <= 0 THEN l
      ELSE Norm([l EXCEPT ![1] = l[1] - r + (IF up THEN ulp ELSE 0)])

FAdd(a, b) == RoundDouble(AddL(a, b))

\* exact product with a small natural number
MulSmall(l, k) == Norm([i \in 1..NLimbs |-> l[i] * k])

\* exact quotient by a small natural number, cut to a multiple of 2^-56
DivSmall(l, k) ==
  LET r5 == l[5] % k
      d4 == r5 * LimbBase + l[4]
      d3 == (d4 % k) * LimbBase + l[3]
      d2 == (d3 % k) * LimbBase + l[2]
      d1 == (d2 % k) * LimbBase + l[1]
  IN  << d1 \div k, d2 \div k, d3 \div k, d4 \div k, l[5] \div k >>

\* a * 255.0
FMul255(a) == RoundDouble(MulSmall(a, 255))

\* int(d) for d >= 0: truncation
Trunc(l) == l[NLimbs]

Zero == << 0, 0, 0, 0, 0 >>
One  == << 0, 0, 0, 0, 1 >>

\* ------------------------------------------------------ program constants
MAX_MOTOR_POWER == 255
initial_speed == << 0, 0, 0, 8192, 0 >>          \* 0.5
speed_step == << 6554, 9830, 6553, 1638, 0 >>    \* the double nearest 0.1

\* the increment without its upper clamp
SpeedUpNoClamp(s) == FAdd(s, speed_step)

\* Python's min(1.0, current_speed + speed_step)
SpeedUp(s) == LET n == FAdd(s, speed_step) IN IF LessL(One, n) THEN One ELSE n

\* Python's max(0.0, current_speed - speed_step); a negative difference
\* loses to 0.0
SpeedDown(s) ==
  IF LessL(s, speed_step) THEN Zero ELSE RoundDouble(SubL(s, speed_step))

\* --------------------------------------------------------------- the mixer
\* Directional inputs are held in units of 1/10000, so that the diagonal
\* factor 0.7071 is the integer 7071.  The doubles behave the same way on
\* the values that occur: x + x, x - x and x / x are exact.
Unit == 10000
Diagonal == 7071

Abs(n) == IF n < 0 THEN -n ELSE n
Sgn(n) == IF n < 0 THEN -1 ELSE IF n > 0 THEN 1 ELSE 0
Max(a, b) == IF a >= b THEN a ELSE b
Min(a, b) == IF a <= b THEN a ELSE b

KeySet == {"w", "a", "s", "d"}

y_input(keys) == (IF "w" \in keys THEN 1 ELSE 0) - (IF "s" \in keys THEN 1 ELSE 0)
x_input(keys) == (IF "d" \in keys THEN 1 ELSE 0) - (IF "a" \in keys THEN 1 ELSE 0)

\* a scaling applied as soon as either axis is non-zero
ScaledAlways(v, x, y) == IF x # 0 \/ y # 0 THEN v * Diagonal ELSE v * Unit

\* lines 46-49: both axes are scaled when both are non-zero
Scaled(v, x, y) == IF x # 0 /\ y # 0 THEN v * Diagonal ELSE v * Unit

\* the mixing without the normalisation of lines 56-59
RawPowersNoNormalise(keys) ==
  LET x == Scaled(x_input(keys), x_input(keys), y_input(keys))
      y == Scaled(y_input(keys), x_input(keys), y_input(keys))
  IN  [left |-> y - x, right |-> y + x]

\* lines 51-59: tank mixing, then normalisation when a side exceeds 1.0
RawPowers(keys) ==
  LET x == Scaled(x_input(keys), x_input(keys), y_input(keys))
      y == Scaled(y_input(keys), x_input(keys), y_input(keys))
      left_power_raw  == y - x
      right_power_raw == y + x
      max_raw_power   == Max(Abs(left_power_raw), Abs(right_power_raw))
  IN  IF max_raw_power > Unit
      THEN [left  |-> (left_power_raw * Unit) \div max_raw_power,
            right |-> (right_power_raw * Unit) \div max_raw_power]
      ELSE [left |-> left_power_raw, right |-> right_power_raw]

\* The mixer only ever produces -1, 0 and 1 for a side.
RawIsUnit ==
  \A keys \in SUBSET KeySet :
    /\ RawPowers(keys).left \in {-Unit, 0, Unit}
    /\ RawPowers(keys).right \in {-Unit, 0, Unit}

\* lines 62-63 and 67-70: int(raw * current_speed * MAX_MOTOR_POWER),
\* evaluated left to right.  For raw = -1, 0, 1 the first product is exact and
\* the only rounding is that of the product with 255 (for any other raw the
\* first product is cut to a multiple of 2^-56 before it is rounded).  int()
\* truncates toward zero, so the sign is applied last.
\* a conversion that rounds down instead of towards zero
FinalPowerFloor(raw, speed) ==
  LET scaled == RoundDouble(DivSmall(MulSmall(speed, Abs(raw)), Unit))
      power  == FMul255(scaled)
      whole  == \A i \in 1..(NLimbs - 1) : power[i] = 0
  IN  IF raw < 0 /\ ~whole THEN -(Trunc(power) + 1)
      ELSE Sgn(raw) * Trunc(power)

FinalPower(raw, speed) ==
  LET scaled == RoundDouble(DivSmall(MulSmall(speed, Abs(raw)), Unit))
  IN  Sgn(raw) * Trunc(FMul255(scaled))

get_keyboard_inputs_from_pygame(keys, speed) ==
  LET raw == RawPowers(keys)
      left_final_power  == FinalPower(raw.left, speed)
      right_final_power == FinalPower(raw.right, speed)
  IN  [front_left  |-> left_final_power,
       back_left   |-> left_final_power,
       front_right |-> right_final_power,
       back_right  |-> right_final_power,
       active      |-> TRUE]

stop_command ==
  [front_left |-> 0, back_left |-> 0, front_right |-> 0, back_right |-> 0,
   active |-> FALSE]

\* ------------------------------------------------------------------- state
VARIABLES
  running,         \* the global shutdown flag, inverted (line 26)
  current_speed,   \* the global throttle (line 24)
  is_sending,      \* the start/stop flag (line 87)
  client_socket,   \* "None", "unconnected", "connected" or "closed"
  pc,              \* where run_network_client stands
  exc,             \* the except clause the try block ended in, if any
  queue,           \* pygame's pending events
  last_send,       \* << >> or the latest sendall attempt
  open_sockets,    \* sockets created and not yet closed
  final_stops,     \* stop commands attempted in a finally block on the
                   \* socket client_socket refers to
  ever_connected,  \* some connect attempt has succeeded
  attempts,        \* until then: connect attempts made,
  delays,          \*             retry delays taken,
  early_sends      \*             sendall attempts made

\* what is recorded of the time before the first connection
boot == << ever_connected, attempts, delays, early_sends >>

vars == << running, current_speed, is_sending, client_socket, pc, exc, queue,
           last_send, open_sockets, final_stops, boot >>

EventKinds == {"QUIT", "CLICK", "K_UP", "K_DOWN", "K_ESCAPE", "K_SPACE"}

Init ==
  /\ running = TRUE
  /\ current_speed = initial_speed
  /\ is_sending = FALSE
  /\ client_socket = "None"
  /\ pc = "outer"
  /\ exc = "none"
  /\ queue = << >>
  /\ last_send = << >>
  /\ open_sockets = 0
  /\ final_stops = 0
  /\ ever_connected = FALSE
  /\ attempts = 0
  /\ delays = 0
  /\ early_sends = 0

\* ------------------------------------------------------- event processing
\* a Space key that toggles the flag, as the button does
HandleEventSpaceToggles(st, e) ==
  CASE e = "QUIT"     -> [st EXCEPT !.running = FALSE]
    [] e = "CLICK"    -> [st EXCEPT !.is_sending = ~st.is_sending]
    [] e = "K_UP"     -> [st EXCEPT !.current_speed = SpeedUp(st.current_speed)]
    [] e = "K_DOWN"   -> [st EXCEPT !.current_speed = SpeedDown(st.current_speed)]
    [] e = "K_ESCAPE" -> [st EXCEPT !.running = FALSE]
    [] e = "K_SPACE"  -> [st EXCEPT !.is_sending = ~st.is_sending]

\* lines 101-119, one event; CLICK is a left click inside button_rect
HandleEvent(st, e) ==
  CASE e = "QUIT"     -> [st EXCEPT !.running = FALSE]
    [] e = "CLICK"    -> [st EXCEPT !.is_sending = ~st.is_sending]
    [] e = "K_UP"     -> [st EXCEPT !.current_speed = SpeedUp(st.current_speed)]
    [] e = "K_DOWN"   -> [st EXCEPT !.current_speed = SpeedDown(st.current_speed)]
    [] e = "K_ESCAPE" -> [st EXCEPT !.running = FALSE]
    [] e = "K_SPACE"  -> [st EXCEPT !.is_sending = FALSE]

\* line 100: the for loop over pygame.event.get()
RECURSIVE HandleEvents(_, _)
HandleEvents(st, evs) ==
  IF evs = << >> THEN st
  ELSE HandleEvents(HandleEvent(st, Head(evs)), Tail(evs))

AfterEvents ==
  HandleEvents([running |-> running, is_sending |-> is_sending,
                current_speed |-> current_speed], queue)

\* the stop branch keeping the mixed powers and clearing only "active"
MessageKeepsPowers(st, keys) ==
  [get_keyboard_inputs_from_pygame(keys, st.current_speed)
     EXCEPT !.active = st.is_sending]

\* a message chosen by the flag as it stood before the tick's events
MessageStaleFlag(st, keys) ==
  IF is_sending
  THEN get_keyboard_inputs_from_pygame(keys, st.current_speed)
  ELSE stop_command

\* lines 123-128
Message(st, keys) ==
  IF st.is_sending
  THEN get_keyboard_inputs_from_pygame(keys, st.current_speed)
  ELSE stop_command

SendRecord(kind, cmd, ok) ==
  << [kind |-> kind, cmd |-> cmd, ok |-> ok, socket |-> client_socket] >>

\* the boot counters stop at the first connection and saturate at MaxAttempts
Bump(n) == IF ever_connected THEN n ELSE Min(n + 1, MaxAttempts)

\* ----------------------------------------------------------------- actions
\* The user (or the window system) raises an event; pygame queues it whatever
\* the client is doing.
UserEvent(e) ==
  /\ pc # "done"
  /\ Len(queue) < MaxQueue
  /\ queue' = Append(queue, e)
  /\ UNCHANGED << running, current_speed, is_sending, client_socket, pc, exc,
                  last_send, open_sockets, final_stops, boot >>

\* every exception ends the client
RunningAfterAllFatal(kind, run) == IF kind = "none" THEN run ELSE FALSE

\* no exception ends the client
RunningAfterNoneFatal(kind, run) == run

\* lines 167-171: the value of running once the except clauses have run;
\* only the catch-all clause clears it
RunningAfter(kind, run) == IF kind = "other" THEN FALSE ELSE run

ConnectTests == {"socket_ok", "socket_error"}

\* lines 89-95: the outer loop test holds, the socket is created and
\* connect() is entered.  socket.socket() itself can raise OSError, which
\* leaves client_socket None and is handled by lines 169-171.
StartConnect(r) ==
  /\ pc = "outer"
  /\ running
  /\ attempts' = Bump(attempts)
  /\ final_stops' = 0
  /\ IF r = "socket_ok"
     THEN /\ client_socket' = "unconnected"
          /\ open_sockets' = open_sockets + 1
          /\ pc' = "connecting"
          /\ exc' = "none"
          /\ running' = running
     ELSE /\ client_socket' = "None"
          /\ open_sockets' = open_sockets
          /\ pc' = "finally"
          /\ exc' = "other"
          /\ running' = RunningAfter("other", running)
  /\ UNCHANGED << current_speed, is_sending, queue, last_send,
                  ever_connected, delays, early_sends >>

ConnectOutcomes == {"ok", "transport", "other"}

\* a connect that starts every session from fresh control state: which is
\* the throttle and the start/stop flag as line 24 and line 87 set them
FreshOnConnect(field, r) ==
  IF r = "ok"
  THEN (IF field = "current_speed" THEN initial_speed ELSE FALSE)
  ELSE (IF field = "current_speed" THEN current_speed ELSE is_sending)

\* lines 90-96 assign neither current_speed nor is_sending: both are set
\* once, at line 24 and at line 87, outside the outer loop
KeptOnConnect(field, r) ==
  IF field = "current_speed" THEN current_speed ELSE is_sending

\* lines 95-96 and 167-171: connect() returns or raises.  "transport" is one
\* of socket.timeout, ConnectionRefusedError, ConnectionResetError and
\* BrokenPipeError; "other" is any other Exception.
ConnectResult(r) ==
  /\ pc = "connecting"
  /\ IF r = "ok"
     THEN /\ client_socket' = "connected"
          /\ pc' = "inner"
          /\ exc' = "none"
          /\ running' = running
          /\ ever_connected' = TRUE
          /\ attempts' = 0
          /\ delays' = 0
          /\ early_sends' = 0
     ELSE /\ client_socket' = client_socket
          /\ pc' = "finally"
          /\ exc' = r
          /\ running' = RunningAfter(r, running)
          /\ UNCHANGED boot
  /\ current_speed' = KeptOnConnect("current_speed", r)
  /\ is_sending' = KeptOnConnect("is_sending", r)
  /\ UNCHANGED << queue, last_send, open_sockets, final_stops >>

TickOutcomes == {"ok", "send_transport", "send_other", "draw_other"}

\* the except clause a tick's outcome lands in
Raised(r) ==
  CASE r = "ok" -> "none"
    [] r = "send_transport" -> "transport"
    [] r \in {"send_other", "draw_other"} -> "other"

\* lines 130-165 for one outcome r: the send, the frame, and the except
\* clause of lines 167-171.  st is the state the events left.
TickEnd(st, msg, r) ==
  /\ queue' = << >>
  /\ current_speed' = st.current_speed
  /\ is_sending' = st.is_sending
  /\ last_send' = SendRecord("tick", msg, r \in {"ok", "draw_other"})
  /\ exc' = Raised(r)
  /\ running' = RunningAfter(Raised(r), st.running)
  /\ pc' = IF r = "ok" THEN "inner" ELSE "finally"
  /\ UNCHANGED << client_socket, open_sockets, final_stops, boot >>

\* an inner loop that never tests the flag
InnerLoopForever == TRUE

\* line 99: while running
InnerLoopTest == running

\* a pass that breaks out of the loop, without sending, as soon as its events
\* have cleared running
TickBreaksOnQuit ==
  /\ pc = "inner"
  /\ InnerLoopTest
  /\ \E st \in {AfterEvents} :
       IF st.running
       THEN \E keys \in SUBSET KeySet :
              \E msg \in {Message(st, keys)} :
                \E r \in TickOutcomes : TickEnd(st, msg, r)
       ELSE /\ queue' = << >>
            /\ current_speed' = st.current_speed
            /\ is_sending' = st.is_sending
            /\ running' = FALSE
            /\ pc' = "finally"
            /\ exc' = "none"
            /\ UNCHANGED << last_send, client_socket, open_sockets,
                            final_stops, boot >>

\* lines 99-165, one pass of the inner loop: the pending events are handled,
\* the keys are sampled, the message is chosen and sent, the frame is drawn.
\* sendall can raise a transport error or another exception; drawing can
\* raise after the send went out.  What the events changed stays changed.
Tick ==
  /\ pc = "inner"
  /\ InnerLoopTest
  /\ \E st \in {AfterEvents} :
       \E keys \in SUBSET KeySet :
         \E msg \in {Message(st, keys)} :
           \E r \in TickOutcomes : TickEnd(st, msg, r)

\* line 99: the inner loop test fails and control falls to the finally block
LeaveSession ==
  /\ pc = "inner"
  /\ ~InnerLoopTest
  /\ pc' = "finally"
  /\ UNCHANGED << running, current_speed, is_sending, client_socket, exc,
                  queue, last_send, open_sockets, final_stops, boot >>

\* a finally block that spares the stop command after a transport error
SendsFinalStopUnlessBroken == client_socket # "None" /\ exc # "transport"

\* line 173: if client_socket.  A socket object is always true, connected or
\* not.
SendsFinalStop == client_socket # "None"

\* a close that only a connected socket gets
ClosesSocketIfConnected(stop_ok) == client_socket = "connected"

\* a close that is skipped when the stop command could not be sent
ClosesSocketIfSent(stop_ok) == client_socket # "None" /\ stop_ok

\* line 180: close() stands after the try of lines 174-179, under the test of
\* line 173, so it runs whether or not the stop command went out
ClosesSocket(stop_ok) == client_socket # "None"

\* a sleep taken whatever running says
TakesDelayAlways == TRUE

\* line 182: if running
TakesDelay == running

\* lines 172-183: the finally block.  The stop command is sent on any socket
\* that was created; on a socket that never connected sendall always raises,
\* and line 178 swallows whatever it raises.  Then the socket is closed, and
\* the retry delay is entered when running still holds.
Teardown(stop_ok) ==
  /\ pc = "finally"
  /\ IF SendsFinalStop
     THEN /\ stop_ok => client_socket = "connected"
          /\ last_send' = SendRecord("final", stop_command, stop_ok)
          /\ final_stops' = final_stops + 1
          /\ early_sends' = Bump(early_sends)
     ELSE /\ ~stop_ok
          /\ UNCHANGED << last_send, final_stops, early_sends >>
  /\ IF ClosesSocket(stop_ok)
     THEN /\ client_socket' = "closed"
          /\ open_sockets' = open_sockets - 1
     ELSE UNCHANGED << client_socket, open_sockets >>
  /\ IF TakesDelay
     THEN /\ pc' = "sleeping"
          /\ delays' = Bump(delays)
     ELSE /\ pc' = "outer"
          /\ delays' = delays
  /\ UNCHANGED << running, current_speed, is_sending, exc, queue,
                  ever_connected, attempts >>

\* line 183: time.sleep(5) returns
Wake ==
  /\ pc = "sleeping"
  /\ pc' = "outer"
  /\ UNCHANGED << running, current_speed, is_sending, client_socket, exc,
                  queue, last_send, open_sockets, final_stops, boot >>

\* lines 89 and 185-186: the outer loop test fails; pygame.quit()
Exit ==
  /\ pc = "outer"
  /\ ~running
  /\ pc' = "done"
  /\ UNCHANGED << running, current_speed, is_sending, client_socket, exc,
                  queue, last_send, open_sockets, final_stops, boot >>

Program ==
  \/ \E r \in ConnectTests : StartConnect(r)
  \/ \E r \in ConnectOutcomes : ConnectResult(r)
  \/ Tick
  \/ LeaveSession
  \/ \E stop_ok \in BOOLEAN : Teardown(stop_ok)
  \/ Wake
  \/ Exit

Next ==
  \/ \E e \in EventKinds : UserEvent(e)
  \/ Program

Spec == Init /\ [][Next]_vars

\* The same client while the endpoint is unreachable: connect() never
\* succeeds, so the inner loop is never entered.  Every blocking call
\* returns (connect() within its timeout, sendall, time.sleep(5)), hence the
\* weak fairness of the client's steps; nothing obliges the user to act.
OutageProgram ==
  \/ \E r \in ConnectTests : StartConnect(r)
  \/ \E r \in ConnectOutcomes \ {"ok"} : ConnectResult(r)
  \/ \E stop_ok \in BOOLEAN : Teardown(stop_ok)
  \/ Wake
  \/ Exit

OutageNext ==
  \/ \E e \in EventKinds : UserEvent(e)
  \/ OutageProgram

OutageSpec == Init /\ [][OutageNext]_vars /\ WF_vars(OutageProgram)

TypeOK ==
  /\ running \in BOOLEAN
  /\ is_sending \in BOOLEAN
  /\ client_socket \in {"None", "unconnected", "connected", "closed"}
  /\ pc \in {"outer", "connecting", "inner", "finally", "sleeping", "done"}
  /\ exc \in {"none", "transport", "other"}
  /\ queue \in Seq(EventKinds) /\ Len(queue) <= MaxQueue
  /\ Len(last_send) <= 1
  /\ open_sockets \in 0..1
  /\ final_stops \in 0..1
  /\ ever_connected \in BOOLEAN
  /\ attempts \in 0..MaxAttempts
  /\ delays \in 0..MaxAttempts
  /\ early_sends \in 0..MaxAttempts
  /\ RawIsUnit

\* ------------------------------------------------------------- properties
Sent == IF last_send = << >> THEN {} ELSE {last_send[1]}

FinalStopOn(sock, rec) ==
  /\ rec.kind = "final"
  /\ rec.cmd = stop_command
  /\ rec.socket = sock

QuitPending == \E i \in 1..Len(queue) : queue[i] \in {"QUIT", "K_ESCAPE"}

InRange(s) == (\A i \in 1..NLimbs : s[i] >= 0) /\ ~LessL(One, s)

Powers(cmd) == {cmd.front_left, cmd.back_left, cmd.front_right, cmd.back_right}

\* C1: when a connected session ends, for whatever reason, the stop command
\* is attempted exactly once on that connection: none is attempted while the
\* session lasts, the step that ends the session follows a tick's send, makes
\* the one attempt (which may succeed or fail) and closes the socket, and
\* nothing is sent on the socket once it is closed.
C1_StopOnceBeforeClose ==
  [][ /\ (client_socket = "connected" => final_stops = 0)
      /\ (client_socket = "connected" /\ client_socket' # "connected") =>
           /\ \A rec \in Sent : rec.kind = "tick" /\ rec.socket = "connected"
           /\ Sent # {}
           /\ client_socket' = "closed"
           /\ final_stops' = 1
           /\ \A rec \in Sent' : FinalStopOn("connected", rec)
           /\ Sent' # {}
      /\ (client_socket = "closed" /\ client_socket' = "closed") =>
           /\ last_send' = last_send
           /\ final_stops' = final_stops
    ]_vars

\* a session that a transport error ended, and whose stop command could not
\* be sent either, has been closed after one attempt
C1_Witness ==
  /\ pc = "sleeping"
  /\ exc = "transport"
  /\ client_socket = "closed"
  /\ final_stops = 1
  /\ \E rec \in Sent : FinalStopOn("connected", rec) /\ ~rec.ok

\* C2: every command handed to sendall with active = false has all four
\* power fields 0.
C2_InactiveIsZero ==
  \A rec \in Sent : ~rec.cmd.active => Powers(rec.cmd) = {0}

\* a tick sent the stop command after the throttle had been changed
C2_Witness ==
  /\ current_speed # initial_speed
  /\ \E rec \in Sent : rec.kind = "tick" /\ ~rec.cmd.active

\* C3: when the first two connect attempts fail with a transport error and
\* the third succeeds, exactly three attempts were made, with a delay between
\* each two, and no sendall of any kind was attempted before the third one
\* succeeded.
C3_ThreeAttemptsNoSend ==
  [][ (pc = "connecting" /\ pc' = "inner" /\ ~ever_connected /\ attempts = 3)
        => (delays = 2 /\ early_sends = 0) ]_vars

\* C4: an event raised while the client is not connected is handled without
\* a connection being needed first, here with the endpoint unreachable.
C4_ResponsiveInOutage ==
  (client_socket # "connected" /\ queue # << >>)
    ~> (client_socket # "connected" /\ (queue = << >> \/ pc = "done"))

\* C5 as stated: once a transport error has been raised, the finally block is
\* followed by the retry delay.
C5_TransportAlwaysRetries ==
  [][ (pc = "finally" /\ exc = "transport" /\ pc' # pc) => pc' = "sleeping"
    ]_vars

\* C5, amended: a transport error raised by connect() or by a tick's send
\* leaves running as it was (for a tick: as the tick's events left it); the
\* socket is then closed, and, when running still holds, the retry delay is
\* taken and followed by a new connect attempt.
C5_TransportIsRecoverable ==
  [][ /\ (pc = "connecting" /\ exc' = "transport") => running' = running
      /\ (pc = "inner" /\ exc' = "transport") =>
           running' = AfterEvents.running
      /\ (pc = "finally" /\ exc = "transport" /\ pc' # pc) =>
           /\ running' = running
           /\ client_socket' = "closed"
           /\ open_sockets' = 0
           /\ pc' = IF running THEN "sleeping" ELSE "outer"
      /\ pc = "sleeping" => running /\ running' /\ pc' \in {"sleeping", "outer"}
      /\ (pc = "outer" /\ running /\ pc' # pc) =>
           \E r \in ConnectTests : StartConnect(r)
    ]_vars

\* a new connect attempt is under way after a session was lost; a session
\* that ends with running still set ended in a transport error
C5_Witness ==
  /\ pc = "connecting"
  /\ ever_connected
  /\ running
  /\ \E rec \in Sent : FinalStopOn("connected", rec)

\* C6: an exception that is not a transport error clears running; the finally
\* block then attempts the stop command on the socket, if there is one, and
\* closes it, no delay is taken, no connect attempt follows, and the client
\* terminates.
C6_OtherErrorIsFatal ==
  [][ /\ exc = "other" => ~running /\ pc \in {"finally", "outer", "done"}
      /\ (pc = "finally" /\ exc = "other" /\ pc' # pc) =>
           /\ pc' = "outer"
           /\ ~running'
           /\ open_sockets' = 0
           /\ client_socket # "None" =>
                /\ client_socket' = "closed"
                /\ final_stops' = 1
                /\ \A rec \in Sent' : FinalStopOn(client_socket, rec)
                /\ Sent' # {}
           /\ client_socket = "None" =>
                UNCHANGED << client_socket, last_send >>
      /\ (pc = "outer" /\ exc = "other" /\ pc' # pc) =>
           /\ pc' = "done"
           /\ UNCHANGED << client_socket, last_send, open_sockets >>
      /\ pc = "done" => UNCHANGED vars
    ]_vars

\* the client has terminated after an exception in a tick, the stop command
\* having been attempted on the connection
C6_Witness ==
  /\ pc = "done"
  /\ exc = "other"
  /\ client_socket = "closed"
  /\ \E rec \in Sent : FinalStopOn("connected", rec)

\* C7: once running is false it stays false, no tick and no connect attempt
\* begins, and the only thing sent is the stop command of the finally block.
C7_NoTickAfterShutdown ==
  [][ ~running =>
        /\ ~running'
        /\ ~Tick
        /\ ~(\E r \in ConnectTests : StartConnect(r))
        /\ pc' \notin {"connecting", "sleeping"}
        /\ last_send' # last_send =>
             \A rec \in Sent' : rec.kind = "final" /\ rec.cmd = stop_command
    ]_vars

\* the client has terminated after a quit or escape event, the last thing
\* sent being the stop command of the finally block
C7_Witness ==
  /\ pc = "done"
  /\ exc = "none"
  /\ ~running
  /\ \E rec \in Sent : FinalStopOn("connected", rec)

\* C8: a pending quit or escape event leads to the client shutting down,
\* also while every connect attempt fails.
C8_QuitLeadsToShutdown == QuitPending ~> (pc = "done")

\* C9: the throttle stays within [0.0, 1.0]; at 1.0 an increment leaves it at
\* 1.0 and at 0.0 a decrement leaves it at 0.0.
C9_SpeedInRange ==
  /\ InRange(current_speed)
  /\ current_speed = One => SpeedUp(current_speed) = One
  /\ current_speed = Zero => SpeedDown(current_speed) = Zero

\* the throttle has been driven up to the clamp
C9_Witness == current_speed = One /\ ever_connected

\* C10: every power field handed to sendall lies in
\* [-MAX_MOTOR_POWER, MAX_MOTOR_POWER].
C10_PowerBounded ==
  \A rec \in Sent :
    \A p \in Powers(rec.cmd) : -MAX_MOTOR_POWER <= p /\ p <= MAX_MOTOR_POWER

\* forward and right held together at full throttle: intent (1,1), for which
\* the left side is 0 and the right side is at full power
C10_Witness ==
  /\ current_speed = One
  /\ \E rec \in Sent :
       /\ rec.cmd.active
       /\ rec.cmd.front_left = 0
       /\ rec.cmd.front_right = MAX_MOTOR_POWER

\* a step of the inner loop body: the only step that empties the event queue
\* while the session lasts
TickStep == pc = "inner" /\ running /\ queue' = << >>

\* no tick has sent anything on the present connection yet
SessionIsNew == pc = "inner" /\ \A rec \in Sent : rec.kind = "final"

SpeedPending == \E i \in 1..Len(queue) : queue[i] \in {"K_UP", "K_DOWN"}

C12_SendingFlagIsPerSession ==
  [][ (pc = "connecting" /\ pc' = "inner") => ~is_sending' ]_vars

\* C13: at most one socket is open at any time: a connect attempt creates a
\* socket only when none is open, the finally block leaves none open, and
\* none is open once the client has ended.
C13_OneSocketAtATime ==
  /\ open_sockets <= 1
  /\ open_sockets = 1 <=> client_socket \in {"unconnected", "connected"}
  /\ pc \in {"outer", "sleeping", "done"} => open_sockets = 0

\* a second socket is about to be created after an earlier one, which had
\* been connected, was closed
C13_Witness ==
  /\ pc = "outer"
  /\ running
  /\ ever_connected
  /\ client_socket = "closed"
  /\ open_sockets = 0

\* the finally block runs
TeardownStep == pc = "finally" /\ pc' # pc

\* C14: a stop command that fails to go out in the finally block is not
\* escalated: running and the recorded exception stay as they were, the
\* socket is closed all the same, and when running holds the retry delay
\* follows, after which the outer loop makes its next connect attempt.
C14_FailedStopNotEscalated ==
  [][ /\ (/\ TeardownStep
          /\ client_socket # "None"
          /\ \E rec \in Sent' : rec.kind = "final" /\ ~rec.ok) =>
           /\ running' = running
           /\ exc' = exc
           /\ client_socket' = "closed"
           /\ open_sockets' = 0
           /\ pc' = IF running THEN "sleeping" ELSE "outer"
      /\ (pc = "sleeping" /\ pc' # pc) => (pc' = "outer" /\ running')
      /\ (pc = "outer" /\ running /\ pc' # pc) =>
           (pc' = "connecting" \/ exc' = "other")
    ]_vars

\* the next connect attempt is under way after the stop command failed to go
\* out on a connection that had been established
C14_Witness ==
  /\ pc = "connecting"
  /\ running
  /\ \E rec \in Sent : FinalStopOn("connected", rec) /\ ~rec.ok

\* C15: the finally block is followed by the retry delay exactly when running
\* still holds; when it does not, no delay is taken, the outer loop test
\* fails and the client ends without another connect attempt.
C15_DelayIffRunning ==
  [][ /\ TeardownStep =>
           /\ pc' = "sleeping" <=> running
           /\ pc' = "outer" <=> ~running
           /\ running' = running
      /\ (pc = "outer" /\ ~running /\ pc' # pc) => pc' = "done"
      /\ ~running => pc' \notin {"sleeping", "connecting"}
    ]_vars

\* a session was ended by a quit or escape event; its socket is closed and
\* control is back at the outer loop test, without a delay
C15_Witness ==
  /\ pc = "outer"
  /\ ~running
  /\ exc = "none"
  /\ client_socket = "closed"
  /\ \E rec \in Sent : FinalStopOn("connected", rec)

AllPowers(p) ==
  [front_left |-> p, back_left |-> p, front_right |-> p, back_right |-> p,
   active |-> TRUE]

\* C16: with only the forward key held, at throttle 1.0, the mixer gives
\* MAX_MOTOR_POWER = 255 on all four wheels.
C16_FullForward ==
  current_speed = One =>
    get_keyboard_inputs_from_pygame({"w"}, current_speed) = AllPowers(255)

\* a tick at throttle 1.0 has sent 255 on all four wheels
C16_Witness ==
  /\ current_speed = One
  /\ \E rec \in Sent : rec.kind = "tick" /\ rec.ok /\ rec.cmd = AllPowers(255)

\* C17: with only the right key held the two sides get opposite powers, at
\* any throttle the client can reach; at throttle 1.0 their magnitude is 255.
\* The throttle changes only in a tick, which leaves the event queue empty,
\* so the states with an empty queue show every throttle that is reached.
C17_TurnInPlace ==
  queue = << >> =>
    LET cmd == get_keyboard_inputs_from_pygame({"d"}, current_speed)
    IN  /\ cmd.front_left = -cmd.front_right
        /\ cmd.back_left = -cmd.back_right
        /\ cmd.front_left = cmd.back_left
        /\ current_speed = One => Abs(cmd.front_right) = 255

\* a tick at throttle 1.0 has sent a full turn in place
C17_Witness ==
  /\ current_speed = One
  /\ queue = << >>
  /\ \E rec \in Sent :
       /\ rec.kind = "tick"
       /\ rec.ok
       /\ rec.cmd.active
       /\ rec.cmd.front_left = -255
       /\ rec.cmd.front_right = 255

\* the commands the mixer can produce at a given speed: each side is 0 or the
\* full power at that speed, forward or backward, front and back wheels of a
\* side agree, and "active" is set
IsMixerOutput(cmd, speed) ==
  LET full == FinalPower(Unit, speed)
  IN  /\ cmd.active
      /\ Powers(cmd) \subseteq {0, full, -full}
      /\ cmd.front_left = cmd.back_left
      /\ cmd.front_right = cmd.back_right

\* C18: the command a tick has sent on the connection goes with the sending
\* flag and the throttle as that tick's events left them: the stop command
\* when the flag is off, a mixer output at that throttle, marked active, when
\* it is on.
C18_TickSendsByFlag ==
  \A rec \in Sent :
    rec.kind = "tick" =>
      /\ rec.socket = "connected"
      /\ IF is_sending
         THEN IsMixerOutput(rec.cmd, current_speed)
         ELSE rec.cmd = stop_command

\* a tick has sent a drive command that turns while backing, at a throttle
\* other than the initial one
C18_Witness ==
  /\ pc = "inner"
  /\ is_sending
  /\ current_speed # initial_speed
  /\ \E rec \in Sent :
       /\ rec.kind = "tick"
       /\ rec.ok
       /\ rec.cmd.front_left < 0
       /\ rec.cmd.front_right = 0

\* C19: the tick whose events clear running still makes its send, an active
\* command when is_sending holds after those events; the inner loop is then
\* left without another send, and the finally block attempts the stop
\* command, so that the last command attempted on a socket that has been
\* closed is the stop command.
C19_QuitTickStillSends ==
  [][ /\ (TickStep /\ QuitPending) =>
           /\ ~running'
           /\ \E rec \in Sent' :
                /\ rec.kind = "tick"
                /\ rec.socket = "connected"
                /\ rec.cmd.active = is_sending'
      /\ (pc = "inner" /\ ~running /\ pc' # pc) =>
           (pc' = "finally" /\ last_send' = last_send)
      /\ (TeardownStep /\ client_socket = "connected") =>
           \E rec \in Sent' : FinalStopOn("connected", rec)
      /\ client_socket' = "closed" =>
           (Sent' # {} /\ \A rec \in Sent' : rec.kind = "final")
    ]_vars

\* the tick that handled a quit or escape event has sent a drive command and
\* the inner loop is about to be left
C19_Witness ==
  /\ pc = "inner"
  /\ ~running
  /\ exc = "none"
  /\ is_sending
  /\ \E rec \in Sent : rec.kind = "tick" /\ rec.ok /\ rec.cmd.active

\* the pending batch holds a Space key with no button click after it
SpaceLast ==
  \E i \in 1..Len(queue) :
    /\ queue[i] = "K_SPACE"
    /\ \A j \in (i + 1)..Len(queue) : queue[j] # "CLICK"

ClickPending == \E i \in 1..Len(queue) : queue[i] = "CLICK"

\* C20: a Space key switches is_sending off whether it was on or off, where a
\* button click inverts it; a tick whose batch holds a Space key with no
\* click after it leaves the flag off and sends the stop command; and the
\* flag goes from off to on only in a tick that handles a click.
C20_SpaceSwitchesOff ==
  [][ /\ (TickStep /\ SpaceLast) =>
           /\ ~is_sending'
           /\ Sent' # {}
           /\ \A rec \in Sent' : rec.kind = "tick" /\ rec.cmd = stop_command
      /\ (TickStep /\ queue = << "K_SPACE" >>) => ~is_sending'
      /\ (TickStep /\ queue = << "CLICK" >>) => is_sending' = ~is_sending
      /\ (~is_sending /\ is_sending') => (TickStep /\ ClickPending)
    ]_vars

\* drive commands are being sent, and a Space key, with no click after it, is
\* in the batch the next tick will handle
C20_Witness ==
  /\ pc = "inner"
  /\ running
  /\ is_sending
  /\ SpaceLast
  /\ \E rec \in Sent : rec.kind = "tick" /\ rec.ok /\ rec.cmd.active
====
